---- MODULE Spec2Model ----
(***************************************************************************)
(* Model of the forum scraper (scraper.py: Content Parser, Tag Generator,  *)
(* Post Collector) and of the static-site generator (build_html.py: Site   *)
(* Assembler).                                                             *)
(*                                                                         *)
(* A Python string is a sequence of symbols.  A symbol is a short run of   *)
(* characters that the code never splits: "http://" is the scheme prefix   *)
(* that the raw-URL pattern looks for, " " is a whitespace character, and  *)
(* so on.  Markup is a sequence of items; an item is either one character  *)
(* symbol or one complete tag "<...>" (start tag, end tag or empty tag).   *)
(***************************************************************************)
EXTENDS Integers, Sequences, FiniteSets, TLC

VARIABLES
    raw_xml,        \* Content Parser: the argument of parse_ed_content
    p_pc,           \* Content Parser: "input" while the argument is chosen, "returned" after the call
    full_text,      \* Content Parser: first component of the returned pair
    resources,      \* Content Parser: second component of the returned pair
    parse_path,     \* Content Parser: which path produced full_text
    c_pc,           \* Post Collector: position in main
    all_threads,    \* Post Collector: the accumulated thread summaries
    offset,         \* Post Collector: the offset of the next list_threads call
    idx,            \* Post Collector: position of the loop over all_threads (next thread)
    final_posts,    \* Post Collector: the accumulated post records
    posts_file,     \* Post Collector: posts.json, <<>> until written, then <<its array>>
    events,         \* Post Collector: the external calls and delays so far, in order
    outcomes,       \* Post Collector: what happened to each thread of the loop so far
    a_pc,           \* Site Assembler: "setup" while the files are laid out, "exited" after main
    linesep,        \* Site Assembler: os.linesep of the platform
    fs_posts,       \* Site Assembler: posts.json, <<>> if missing, else <<its text>>
    fs_template,    \* Site Assembler: template.html, <<>> if missing, else <<its bytes>>
    fs_index,       \* Site Assembler: index.html, <<>> if missing, else <<its bytes>>
    n_chunks,       \* Site Assembler: how many pieces template.html was written in
    index_opened,   \* Site Assembler: open('index.html', 'w') was executed
    exit_code       \* Site Assembler: the exit status of the process, -1 while it has not run

parserVars == <<raw_xml, p_pc, full_text, resources, parse_path>>

collectorVars == <<c_pc, all_threads, offset, idx, final_posts, posts_file, events, outcomes>>

assemblerVars ==
    <<a_pc, linesep, fs_posts, fs_template, fs_index, n_chunks, index_opened, exit_code>>

vars == <<parserVars, collectorVars, assemblerVars>>

----------------------------------------------------------------------------
(* Bounds *)

\* longest markup, in items, for the text-order specification
MaxTextItems == 5

\* longest markup, in items, for the resource specification
MaxResItems == 4

\* most thread summaries the forum hands out in one run
MaxThreads == 2

\* longest batch the forum returns from one list_threads call
MaxBatch == 2

\* most pieces template.html is made of
MaxChunks == 3

----------------------------------------------------------------------------
(* Strings *)

Whitespace == {" "}

RECURSIVE lstrip(_)
lstrip(s) ==
    IF s # <<>> /\ Head(s) \in Whitespace THEN lstrip(Tail(s)) ELSE s

RECURSIVE rstrip(_)
rstrip(s) ==
    IF s # <<>> /\ s[Len(s)] \in Whitespace
    THEN rstrip(SubSeq(s, 1, Len(s) - 1))
    ELSE s

\* str.strip()
strip(s) == rstrip(lstrip(s))

\* x in s, for a one-symbol needle
Contains(s, sym) == \E n \in 1..Len(s) : s[n] = sym

----------------------------------------------------------------------------
(* Markup items *)

\* an optional attribute value: <<>> when the attribute is absent, <<v>> when present
NoAttrs == [href |-> <<>>, url |-> <<>>, src |-> <<>>, filename |-> <<>>, alt |-> <<>>]

Chr(c) == [k |-> "chr", tag |-> c, attrs |-> NoAttrs]

Open(tag, attrs) == [k |-> "open", tag |-> tag, attrs |-> attrs]

Close(tag) == [k |-> "close", tag |-> tag, attrs |-> NoAttrs]

Empty(tag, attrs) == [k |-> "empty", tag |-> tag, attrs |-> attrs]

\* element.get(name): the pair (present, value)
Get(element, name) == element.attrs[name]

\* element.get(name, default)
GetOr(element, name, default) ==
    IF Get(element, name) = <<>> THEN default ELSE Get(element, name)[1]

\* truthiness of element.get(name): present and not the empty string
Truthy(opt) == opt # <<>> /\ opt[1] # <<>>

----------------------------------------------------------------------------
(* parse_ed_content: structured path *)

\* raw_xml.replace('&nbsp;', ' ')
sanitize(items) ==
    [n \in 1..Len(items) |->
        IF items[n].k = "chr" /\ items[n].tag = "&nbsp;" THEN Chr(" ") ELSE items[n]]

\* ET.fromstring(f"<root>{sanitized_xml}</root>") succeeds: no stray "<", and
\* every end tag closes the innermost open element; stack holds the open
\* elements, the synthetic root at the bottom.
RECURSIVE Balanced(_, _, _)
Balanced(items, n, stack) ==
    IF stack = <<>> THEN FALSE
    ELSE IF n > Len(items) THEN stack = <<"root">>
    ELSE IF items[n].k = "chr" THEN
        items[n].tag # "<" /\ Balanced(items, n + 1, stack)
    ELSE IF items[n].k = "open" THEN
        Balanced(items, n + 1, Append(stack, items[n].tag))
    ELSE IF items[n].k = "empty" THEN
        Balanced(items, n + 1, stack)
    ELSE
        /\ stack[Len(stack)] = items[n].tag
        /\ Balanced(items, n + 1, SubSeq(stack, 1, Len(stack) - 1))

fromstring_ok(items) == Balanced(items, 1, <<"root">>)

\* the character data that starts at item n and runs to the next tag
RECURSIVE TextRun(_, _)
TextRun(items, n) ==
    IF n > Len(items) \/ items[n].k # "chr" THEN <<>>
    ELSE <<items[n].tag>> \o TextRun(items, n + 1)

\* the end tag that closes the element whose content starts at item n
RECURSIVE MatchClose(_, _, _)
MatchClose(items, n, depth) ==
    IF items[n].k = "close" THEN
        IF depth = 0 THEN n ELSE MatchClose(items, n + 1, depth - 1)
    ELSE IF items[n].k = "open" THEN MatchClose(items, n + 1, depth + 1)
    ELSE MatchClose(items, n + 1, depth)

\* the item that ends the element starting at item n
EndOf(items, n) ==
    IF items[n].k = "empty" THEN n ELSE MatchClose(items, n + 1, 0)

\* element.text (None is the empty string here: it is only ever appended)
element_text(items, n) ==
    IF items[n].k = "empty" THEN <<>> ELSE TextRun(items, n + 1)

\* element.tail
element_tail(items, n) == TextRun(items, EndOf(items, n) + 1)

\* "".join(element.itertext()): all character data inside the element, in document order
RECURSIVE CharsBetween(_, _, _)
CharsBetween(items, n, m) ==
    IF n >= m THEN <<>>
    ELSE IF items[n].k = "chr" THEN <<items[n].tag>> \o CharsBetween(items, n + 1, m)
    ELSE CharsBetween(items, n + 1, m)

itertext(items, n) == CharsBetween(items, n + 1, EndOf(items, n))

\* add_resource without the seen_urls test
add_resource_NoDedup(st, r_type, url, name) ==
    LET clean_url == strip(url)
    IN [st EXCEPT
          !.seen_urls = @ \cup {clean_url},
          !.resources = Append(@,
              [type |-> r_type, url |-> clean_url,
               name |-> IF name = clean_url THEN <<"Link">> ELSE name])]

\* add_resource without the renaming of a name that equals the URL
add_resource_KeepName(st, r_type, url, name) ==
    LET clean_url == strip(url)
    IN IF clean_url \notin st.seen_urls
       THEN [st EXCEPT
               !.seen_urls = @ \cup {clean_url},
               !.resources = Append(@, [type |-> r_type, url |-> clean_url, name |-> name])]
       ELSE st

\* add_resource: st is the closure's state (resources, seen_urls)
add_resource(st, r_type, url, name) ==
    LET clean_url == strip(url)
    IN IF clean_url \notin st.seen_urls
       THEN [st EXCEPT
               !.seen_urls = @ \cup {clean_url},
               !.resources = Append(@,
                   [type |-> r_type, url |-> clean_url,
                    name |-> IF name = clean_url THEN <<"Link">> ELSE name])]
       ELSE st

\* the resource branch of the loop body, for the element that starts at item n
extract_resource(st, items, n) ==
    LET element == items[n]
    IN IF element.tag = "link" THEN
           LET url  == Get(element, "href")
               text == strip(itertext(items, n))
               name == IF text = <<>> THEN <<"External Link">> ELSE text
           IN IF Truthy(url) THEN add_resource(st, "link", url[1], name) ELSE st
       ELSE IF element.tag \in {"file", "secure-file"} THEN
           LET url  == Get(element, "url")
               name == GetOr(element, "filename", <<"File">>)
           IN IF Truthy(url) THEN add_resource(st, "file", url[1], name) ELSE st
       ELSE IF element.tag = "image" THEN
           LET url  == Get(element, "src")
               name == GetOr(element, "alt", <<"Image">>)
           IN IF Truthy(url) THEN add_resource(st, "image", url[1], name) ELSE st
       ELSE st

\* one pass of the loop body: text, then resources, then tail
visit(st, items, n) ==
    LET st1 == [st EXCEPT !.text_parts = @ \o element_text(items, n)]
        st2 == extract_resource(st1, items, n)
    IN [st2 EXCEPT !.text_parts = @ \o element_tail(items, n)]

\* for element in root.iter(): pre-order, which is the order of the start tags
RECURSIVE iterate(_, _, _)
iterate(st, items, n) ==
    IF n > Len(items) THEN st
    ELSE IF items[n].k \in {"open", "empty"} THEN iterate(visit(st, items, n), items, n + 1)
    ELSE iterate(st, items, n + 1)

\* the try block: the synthetic root comes first; it has direct text and no tail
structured(items) ==
    LET st0 == [text_parts |-> TextRun(items, 1), resources |-> <<>>, seen_urls |-> {}]
    IN iterate(st0, items, 1)

----------------------------------------------------------------------------
(* parse_ed_content: fallback path and raw-URL scan *)

\* the first item at or after n that holds a ">" (a ">" character or any tag); 0 if none
RECURSIVE NextGt(_, _)
NextGt(items, n) ==
    IF n > Len(items) THEN 0
    ELSE IF items[n].k # "chr" \/ items[n].tag = ">" THEN n
    ELSE NextGt(items, n + 1)

\* re.sub(r'<[^>]+>', '', raw_xml): leftmost, non-overlapping matches removed
RECURSIVE re_sub_tags(_, _)
re_sub_tags(items, n) ==
    IF n > Len(items) THEN <<>>
    ELSE IF items[n].k # "chr" THEN re_sub_tags(items, n + 1)
    ELSE IF items[n].tag = "<" THEN
        LET e == NextGt(items, n + 1)
        IN IF e = 0 \/ (e = n + 1 /\ items[e].k = "chr")
           THEN <<"<">> \o re_sub_tags(items, n + 1)
           ELSE re_sub_tags(items, e + 1)
    ELSE <<items[n].tag>> \o re_sub_tags(items, n + 1)

\* the characters that end a raw URL: [\s"'<>]
UrlTerminators == Whitespace \cup {"\"", "'", "<", ">"}

\* the last symbol of the greedy run [^\s"'<>]+ that starts at n
RECURSIVE UrlEnd(_, _)
UrlEnd(t, n) ==
    IF n + 1 <= Len(t) /\ t[n + 1] \notin UrlTerminators THEN UrlEnd(t, n + 1) ELSE n

\* re.findall(r'(https?://[^\s"'<>]+)', full_text)
RECURSIVE findall_urls(_, _)
findall_urls(t, n) ==
    IF n > Len(t) THEN <<>>
    ELSE IF t[n] = "http://" /\ n + 1 <= Len(t) /\ t[n + 1] \notin UrlTerminators
    THEN LET e == UrlEnd(t, n + 1)
         IN <<SubSeq(t, n, e)>> \o findall_urls(t, e + 1)
    ELSE findall_urls(t, n + 1)

\* the body of the loop over raw_links without the file-hosting branch
scan_link_AllLinks(st, link) ==
    IF link \notin st.seen_urls
    THEN add_resource(st, "link", link, <<"Raw Text Link">>)
    ELSE st

\* the body of the loop over raw_links
scan_link(st, link) ==
    IF Contains(link, "static.us.edusercontent.com")
    THEN add_resource(st, "file", link, <<"Raw File Attachment">>)
    ELSE IF link \notin st.seen_urls
    THEN add_resource(st, "link", link, <<"Raw Text Link">>)
    ELSE st

RECURSIVE scan_links(_, _, _)
scan_links(st, raw_links, n) ==
    IF n > Len(raw_links) THEN st
    ELSE scan_links(scan_link(st, raw_links[n]), raw_links, n + 1)

\* parse_ed_content(raw_xml): [text, resources, path]
parse_ed_content(raw) ==
    IF raw = <<>> THEN [text |-> <<>>, resources |-> <<>>, path |-> "empty"]
    ELSE
        LET ok   == fromstring_ok(sanitize(raw))
            st   == IF ok THEN structured(sanitize(raw))
                    ELSE [text_parts |-> <<>>, resources |-> <<>>, seen_urls |-> {}]
            text == IF ok THEN strip(st.text_parts) ELSE strip(re_sub_tags(raw, 1))
            out  == scan_links(st, findall_urls(text, 1), 1)
        IN [text |-> text, resources |-> out.resources,
            path |-> IF ok THEN "structured" ELSE "fallback"]

----------------------------------------------------------------------------
(* Content Parser: the inputs and the call *)

U1 == <<"http://", "u">>

UFile == <<"http://", "static.us.edusercontent.com">>

\* markup without resources: nesting, direct text and tails
TextItems ==
    { Chr("x"), Chr("y"), Chr(" "),
      Open("b", NoAttrs), Close("b"), Empty("i", NoAttrs) }

\* markup with resources
ResItems ==
    { Chr("http://"), Chr("u"), Chr(" "), Chr("<"),
      Chr("static.us.edusercontent.com"),
      Open("link", [NoAttrs EXCEPT !.href = <<U1>>]), Close("link"),
      Empty("link", [NoAttrs EXCEPT !.href = << <<" ">> \o U1 >>]),
      Empty("link", [NoAttrs EXCEPT !.href = << <<>> >>]),
      Empty("image", [NoAttrs EXCEPT !.src = <<U1>>]),
      Empty("file", [NoAttrs EXCEPT !.url = <<UFile>>, !.filename = << <<"f.pdf">> >>]) }

InitParser ==
    /\ raw_xml = <<>>
    /\ p_pc = "input"
    /\ full_text = <<>>
    /\ resources = <<>>
    /\ parse_path = "none"

AppendTextItem ==
    /\ p_pc = "input"
    /\ Len(raw_xml) < MaxTextItems
    /\ \E it \in TextItems : raw_xml' = Append(raw_xml, it)
    /\ UNCHANGED <<p_pc, full_text, resources, parse_path>>
    /\ UNCHANGED <<collectorVars, assemblerVars>>

AppendResItem ==
    /\ p_pc = "input"
    /\ Len(raw_xml) < MaxResItems
    /\ \E it \in ResItems : raw_xml' = Append(raw_xml, it)
    /\ UNCHANGED <<p_pc, full_text, resources, parse_path>>
    /\ UNCHANGED <<collectorVars, assemblerVars>>

CallParse ==
    /\ p_pc = "input"
    /\ LET r == parse_ed_content(raw_xml)
       IN /\ full_text' = r.text
          /\ resources' = r.resources
          /\ parse_path' = r.path
    /\ p_pc' = "returned"
    /\ UNCHANGED raw_xml
    /\ UNCHANGED <<collectorVars, assemblerVars>>

NextParseText == AppendTextItem \/ CallParse

NextParseRes == AppendResItem \/ CallParse

----------------------------------------------------------------------------
(* Tag Generator *)

\* str.lower(), symbol by symbol
Lower(c) ==
    IF c = "Special" THEN "special"
    ELSE IF c = "Part" THEN "part"
    ELSE IF c = "E" THEN "e"
    ELSE IF c = "A" THEN "a"
    ELSE IF c = "PYTHON" THEN "python"
    ELSE c

lower(s) == [n \in 1..Len(s) |-> Lower(s[n])]

\* the keywords dictionary of generate_tags
keywords ==
    [ Visualization |-> {"visual", "diagram", "manim", "plot", "graph"},
      StudyGuide    |-> {"guide", "roadmap", "notes", "summary", "cheat sheet"},
      QuizDrill     |-> {"quiz", "drill", "flashcard", "mcq", "question generator"},
      ToolApp       |-> {"tool", "app", "cli", "website", "interface"},
      PromptEng     |-> {"prompt", "system prompt", "persona"},
      Coding        |-> {"code", "implementation", "python", "jupyter", "colab"},
      Math          |-> {"derivation", "proof", "calculus", "linear algebra"},
      Tutor         |-> {"tutor", "coach", "socratic"} ]

\* generate_tags(title, content): the labels, as a set (list(set(tags)) has no fixed order)
generate_tags(title, content) ==
    LET text_blob == lower(title \o <<" ">> \o content)
    IN {tag \in DOMAIN keywords : \E key \in keywords[tag] : Contains(text_blob, key)}

----------------------------------------------------------------------------
(* Post Collector *)

COURSE_ID == 84647

batch_size == 50

\* THREAD_PATTERN.search(title): (?i)special\s+part.*n\s+e, anywhere in the title
THREAD_PATTERN_search(title) ==
    LET t == lower(title)
    IN \E a \in 1..Len(t) :
        /\ t[a] = "special"
        /\ \E b \in (a + 2)..Len(t) :
            /\ t[b] = "part"
            /\ \A k \in (a + 1)..(b - 1) : t[k] \in Whitespace
            /\ \E c \in (b + 1)..Len(t) :
                /\ t[c] = "n"
                /\ \A k \in (b + 1)..(c - 1) : t[k] # "\n"
                /\ \E d \in (c + 2)..Len(t) :
                    /\ t[d] = "e"
                    /\ \A k \in (c + 1)..(d - 1) : t[k] \in Whitespace

\* the thread summaries the forum may hand out; title and user are optional keys
ThreadSummaries ==
    { [id |-> 1, title |-> << <<"Special", " ", "Part", "icipatio", "n", " ", "E">> >>,
       created_at |-> "2025-11-01", user |-> << [name |-> << <<"Ann">> >>] >>],
      [id |-> 2, title |-> << <<"special", " ", " ", "part", "n", " ", "e", ":", "x">> >>,
       created_at |-> "2025-11-02", user |-> <<>>],
      [id |-> 3, title |-> << <<"Special", " ", "Part", "icipatio", "n", " ", "A">> >>,
       created_at |-> "2025-11-03", user |-> << [name |-> <<>>] >>] }

\* the non-empty batches list_threads may return
Batches == UNION {[1..n -> ThreadSummaries] : n \in 1..MaxBatch}

\* the content strings get_thread may return
Contents ==
    { <<>>,
      <<Open("link", [NoAttrs EXCEPT !.href = <<U1>>]), Chr("PYTHON"), Close("link")>>,
      <<Open("b", NoAttrs), Chr("http://"), Chr("u")>> }

LogCall(op, arg, res, out) == [op |-> op, arg |-> arg, res |-> res, out |-> out]

\* time.sleep(0.2)
LogSleep == [op |-> "sleep", arg |-> 0, res |-> "ok", out |-> <<>>]

InitCollector ==
    /\ c_pc = "login"
    /\ all_threads = <<>>
    /\ offset = 0
    /\ idx = 1
    /\ final_posts = <<>>
    /\ posts_file = <<>>
    /\ events = <<>>
    /\ outcomes = <<>>

\* ed.login() succeeds
LoginOk ==
    /\ c_pc = "login"
    /\ c_pc' = "list"
    /\ events' = Append(events, LogCall("login", 0, "ok", <<>>))
    /\ UNCHANGED <<all_threads, offset, idx, final_posts, posts_file, outcomes>>
    /\ UNCHANGED <<parserVars, assemblerVars>>

\* ed.login() raises: main returns
LoginFails ==
    /\ c_pc = "login"
    /\ c_pc' = "aborted"
    /\ events' = Append(events, LogCall("login", 0, "error", <<>>))
    /\ UNCHANGED <<all_threads, offset, idx, final_posts, posts_file, outcomes>>
    /\ UNCHANGED <<parserVars, assemblerVars>>

\* one pass of the while loop in which list_threads returns a non-empty batch
ListThreadsBatch ==
    /\ c_pc = "list"
    /\ \E batch \in Batches :
        /\ Len(all_threads) + Len(batch) <= MaxThreads
        /\ all_threads' = all_threads \o batch
        /\ offset' = offset + Len(batch)
        /\ events' = events \o
               <<LogCall("list_threads", offset, "ok", batch), LogSleep>>
    /\ UNCHANGED <<c_pc, idx, final_posts, posts_file, outcomes>>
    /\ UNCHANGED <<parserVars, assemblerVars>>

\* the pass in which list_threads returns an empty batch: break
ListThreadsEmpty ==
    /\ c_pc = "list"
    /\ c_pc' = "fetch"
    /\ events' = Append(events, LogCall("list_threads", offset, "empty", <<>>))
    /\ UNCHANGED <<all_threads, offset, idx, final_posts, posts_file, outcomes>>
    /\ UNCHANGED <<parserVars, assemblerVars>>

\* the pass in which list_threads raises, the summaries gathered so far dropped
ListThreadsError_Discards ==
    /\ c_pc = "list"
    /\ c_pc' = "fetch"
    /\ all_threads' = <<>>
    /\ events' = Append(events, LogCall("list_threads", offset, "error", <<>>))
    /\ UNCHANGED <<offset, idx, final_posts, posts_file, outcomes>>
    /\ UNCHANGED <<parserVars, assemblerVars>>

\* the pass in which list_threads raises: break
ListThreadsError ==
    /\ c_pc = "list"
    /\ c_pc' = "fetch"
    /\ events' = Append(events, LogCall("list_threads", offset, "error", <<>>))
    /\ UNCHANGED <<all_threads, offset, idx, final_posts, posts_file, outcomes>>
    /\ UNCHANGED <<parserVars, assemblerVars>>

\* thread.get('title', '')
TitleOf(thread) == IF thread.title = <<>> THEN <<>> ELSE thread.title[1]

\* user_obj.get('name', 'Anonymous') if user_obj else 'Anonymous'
AuthorOf(thread) ==
    IF thread.user = <<>> \/ thread.user[1].name = <<>>
    THEN <<"Anonymous">>
    ELSE thread.user[1].name[1]

\* post_data for a thread and the content fetched for it
PostData(thread, raw_content) ==
    LET parsed == parse_ed_content(raw_content)
    IN [ id           |-> thread.id,
         title        |-> TitleOf(thread),
         date         |-> thread.created_at,
         author       |-> AuthorOf(thread),
         content      |-> parsed.text,
         resources    |-> parsed.resources,
         tags         |-> generate_tags(TitleOf(thread), parsed.text),
         original_url |-> <<"https://edstem.org/us/courses/", COURSE_ID,
                            "/discussion/", thread.id>> ]

InLoop == c_pc = "fetch" /\ idx <= Len(all_threads)

\* a pass of the for loop over a thread whose title does not match
SkipThread ==
    /\ InLoop
    /\ ~THREAD_PATTERN_search(TitleOf(all_threads[idx]))
    /\ idx' = idx + 1
    /\ outcomes' = Append(outcomes, "no_match")
    /\ UNCHANGED <<c_pc, all_threads, offset, final_posts, posts_file, events>>
    /\ UNCHANGED <<parserVars, assemblerVars>>

\* a pass in which get_thread raises and the exception ends the run
GetThreadRaises_Aborts ==
    /\ InLoop
    /\ THREAD_PATTERN_search(TitleOf(all_threads[idx]))
    /\ events' = Append(events, LogCall("get_thread", all_threads[idx].id, "error", <<>>))
    /\ c_pc' = "aborted"
    /\ outcomes' = Append(outcomes, "fetch_error")
    /\ UNCHANGED <<idx, all_threads, offset, final_posts, posts_file>>
    /\ UNCHANGED <<parserVars, assemblerVars>>

\* a pass in which get_thread raises: caught, reported, next thread
GetThreadRaises ==
    /\ InLoop
    /\ THREAD_PATTERN_search(TitleOf(all_threads[idx]))
    /\ events' = Append(events, LogCall("get_thread", all_threads[idx].id, "error", <<>>))
    /\ idx' = idx + 1
    /\ outcomes' = Append(outcomes, "fetch_error")
    /\ UNCHANGED <<c_pc, all_threads, offset, final_posts, posts_file>>
    /\ UNCHANGED <<parserVars, assemblerVars>>

\* a pass in which get_thread returns a content that is no string, so that
\* parse_ed_content raises: caught, reported, next thread
ProcessingRaises ==
    /\ InLoop
    /\ THREAD_PATTERN_search(TitleOf(all_threads[idx]))
    /\ events' = Append(events, LogCall("get_thread", all_threads[idx].id, "ok", <<>>))
    /\ idx' = idx + 1
    /\ outcomes' = Append(outcomes, "process_error")
    /\ UNCHANGED <<c_pc, all_threads, offset, final_posts, posts_file>>
    /\ UNCHANGED <<parserVars, assemblerVars>>

\* a pass in which the thread is fetched, parsed, tagged and appended
ProcessThread ==
    /\ InLoop
    /\ THREAD_PATTERN_search(TitleOf(all_threads[idx]))
    /\ \E raw_content \in Contents :
        /\ final_posts' = Append(final_posts, PostData(all_threads[idx], raw_content))
        /\ events' = events \o
               <<LogCall("get_thread", all_threads[idx].id, "ok", raw_content), LogSleep>>
    /\ idx' = idx + 1
    /\ outcomes' = Append(outcomes, "ok")
    /\ UNCHANGED <<c_pc, all_threads, offset, posts_file>>
    /\ UNCHANGED <<parserVars, assemblerVars>>

\* json.dump(final_posts, f) after the loop
Persist ==
    /\ c_pc = "fetch"
    /\ idx > Len(all_threads)
    /\ posts_file' = <<final_posts>>
    /\ c_pc' = "done"
    /\ UNCHANGED <<all_threads, offset, idx, final_posts, events, outcomes>>
    /\ UNCHANGED <<parserVars, assemblerVars>>

NextCollector ==
    \/ LoginOk
    \/ LoginFails
    \/ ListThreadsBatch
    \/ ListThreadsEmpty
    \/ ListThreadsError
    \/ SkipThread
    \/ GetThreadRaises
    \/ ProcessingRaises
    \/ ProcessThread
    \/ Persist

----------------------------------------------------------------------------
(* Site Assembler: files, JSON, search and replace *)

LineWhitespace == {" ", "\t", "\n", "\r"}

\* f.read() of a file opened with open(name, 'r'): universal newlines, so
\* "\r\n" and a lone "\r" are read as "\n"
RECURSIVE read_text(_)
read_text(bytes) ==
    IF bytes = <<>> THEN <<>>
    ELSE IF Head(bytes) = "\r" THEN
        IF Len(bytes) >= 2 /\ bytes[2] = "\n"
        THEN <<"\n">> \o read_text(SubSeq(bytes, 3, Len(bytes)))
        ELSE <<"\n">> \o read_text(Tail(bytes))
    ELSE <<Head(bytes)>> \o read_text(Tail(bytes))

\* f.write(s) to a file opened with open(name, 'w'): "\n" is written as os.linesep
RECURSIVE write_text(_, _)
write_text(s, sep) ==
    IF s = <<>> THEN <<>>
    ELSE IF Head(s) = "\n" THEN sep \o write_text(Tail(s), sep)
    ELSE <<Head(s)>> \o write_text(Tail(s), sep)

\* the JSON scalars of the documents: a number and three string literals
JsonStrings == {"\"id\"", "\"a\\nb\"", "\"\\u0001\""}

JsonScalars == {"1"} \cup JsonStrings

\* the tokens of a JSON text: the text without the whitespace between tokens
RECURSIVE json_tokens(_)
json_tokens(text) ==
    IF text = <<>> THEN <<>>
    ELSE IF Head(text) \in LineWhitespace THEN json_tokens(Tail(text))
    ELSE <<Head(text)>> \o json_tokens(Tail(text))

\* the JSON grammar: each operator gives the position after what it read, 0 on a syntax error
RECURSIVE json_value(_, _), json_elements(_, _), json_members(_, _)
json_value(t, n) ==
    IF n > Len(t) THEN 0
    ELSE IF t[n] \in JsonScalars THEN n + 1
    ELSE IF t[n] = "[" THEN
        IF n + 1 <= Len(t) /\ t[n + 1] = "]" THEN n + 2 ELSE json_elements(t, n + 1)
    ELSE IF t[n] = "{" THEN
        IF n + 1 <= Len(t) /\ t[n + 1] = "}" THEN n + 2 ELSE json_members(t, n + 1)
    ELSE 0

json_elements(t, n) ==
    LET m == json_value(t, n)
    IN IF m = 0 \/ m > Len(t) THEN 0
       ELSE IF t[m] = "]" THEN m + 1
       ELSE IF t[m] = "," THEN json_elements(t, m + 1)
       ELSE 0

json_members(t, n) ==
    IF n + 1 > Len(t) \/ t[n] \notin JsonStrings \/ t[n + 1] # ":" THEN 0
    ELSE LET m == json_value(t, n + 2)
         IN IF m = 0 \/ m > Len(t) THEN 0
            ELSE IF t[m] = "}" THEN m + 1
            ELSE IF t[m] = "," THEN json_members(t, m + 1)
            ELSE 0

\* json.load(f) does not raise JSONDecodeError
json_load_ok(text) ==
    LET t == json_tokens(text) IN json_value(t, 1) = Len(t) + 1

\* json.load(f): the value, held as its tokens
json_load(text) == json_tokens(text)

\* len(posts_data) is defined: the value is an array, an object or a string
has_len(value) == value[1] # "1"

\* json.dumps(posts_data, ensure_ascii=False): separators ", " and ": "
RECURSIVE json_dumps(_)
json_dumps(value) ==
    IF value = <<>> THEN <<>>
    ELSE IF Head(value) \in {",", ":"} THEN <<Head(value), " ">> \o json_dumps(Tail(value))
    ELSE <<Head(value)>> \o json_dumps(Tail(value))

\* the placeholder of main
placeholder ==
    <<"const POSTS_DATA", " ", "=", " ", "[];", " ", "//", " ", "DATA_PLACEHOLDER">>

\* f'const POSTS_DATA = {posts_json_str};'
replacement(posts_json_str) ==
    <<"const POSTS_DATA", " ", "=", " ">> \o posts_json_str \o <<";">>

\* s[n:].startswith(sub)
StartsAt(s, n, sub) ==
    /\ n + Len(sub) - 1 <= Len(s)
    /\ SubSeq(s, n, n + Len(sub) - 1) = sub

\* sub in s
str_contains(s, sub) == \E n \in 1..Len(s) : StartsAt(s, n, sub)

\* s.replace(sub, new): every occurrence, left to right, without overlap
RECURSIVE str_replace(_, _, _)
str_replace(s, sub, new) ==
    IF s = <<>> THEN <<>>
    ELSE IF StartsAt(s, 1, sub)
    THEN new \o str_replace(SubSeq(s, Len(sub) + 1, Len(s)), sub, new)
    ELSE <<Head(s)>> \o str_replace(Tail(s), sub, new)

\* the position after the run \s* that starts at n
RECURSIVE SkipSpace(_, _)
SkipSpace(s, n) ==
    IF n <= Len(s) /\ s[n] \in LineWhitespace THEN SkipSpace(s, n + 1) ELSE n

\* the literals of the fallback pattern, \s* between each two
pattern == <<"const POSTS_DATA", "=", "[];", "//", "DATA_PLACEHOLDER">>

\* the position after a match of the literals lits[k..] that starts at n, 0 if none
RECURSIVE MatchFrom(_, _, _, _)
MatchFrom(s, n, lits, k) ==
    IF n > Len(s) \/ s[n] # lits[k] THEN 0
    ELSE IF k = Len(lits) THEN n + 1
    ELSE MatchFrom(s, SkipSpace(s, n + 1), lits, k + 1)

\* re.search(pattern, s) finds a match
re_search(lits, s) == \E n \in 1..Len(s) : MatchFrom(s, n, lits, 1) # 0

\* the template expansion re.sub applies to a replacement string: "\n" in it
\* becomes a newline; <<>> for a symbol without escape
Unescaped(sym) ==
    IF sym = "\"a\\nb\"" THEN <<"\"a", "\n", "b\"">> ELSE <<sym>>

\* the expansion raises re.error: "\u" is a bad escape
BadEscape(repl) == Contains(repl, "\"\\u0001\"")

RECURSIVE expand_template(_)
expand_template(repl) ==
    IF repl = <<>> THEN <<>>
    ELSE Unescaped(Head(repl)) \o expand_template(Tail(repl))

\* re.sub(pattern, repl, s), repl already expanded
RECURSIVE re_sub(_, _, _)
re_sub(lits, repl, s) ==
    IF s = <<>> THEN <<>>
    ELSE LET e == MatchFrom(s, 1, lits, 1)
         IN IF e # 0
            THEN repl \o re_sub(lits, repl, SubSeq(s, e, Len(s)))
            ELSE <<Head(s)>> \o re_sub(lits, repl, Tail(s))

----------------------------------------------------------------------------
(* Site Assembler: the files and main *)

\* the texts posts.json may hold
PostsDocs ==
    { <<"[", "{", "\"id\"", ":", "1", "}", "]">>,
      <<"[", " ", "1", ",", "1", "]", "\n">>,
      <<"[", "\"a\\nb\"", "]">>,
      <<"[", "\"\\u0001\"", "]">>,
      <<"[", "1">>,
      <<"1">> }

\* the pieces template.html may be made of
TemplateChunks ==
    { placeholder,
      <<"const POSTS_DATA", "=", "[];", "//", "DATA_PLACEHOLDER">>,
      <<"const POSTS_DATA", "=", "[];">>,
      <<"x">>, <<"\r">>, <<"\n">> }

\* what index.html holds when it exists before the run
OldIndex == <<"old page">>

InitAssembler ==
    /\ a_pc = "setup"
    /\ linesep = <<"\n">>
    /\ fs_posts = <<>>
    /\ fs_template = <<>>
    /\ fs_index = <<>>
    /\ n_chunks = 0
    /\ index_opened = FALSE
    /\ exit_code = -1

\* the platform is Windows
SetWindows ==
    /\ a_pc = "setup"
    /\ linesep = <<"\n">>
    /\ linesep' = <<"\r", "\n">>
    /\ UNCHANGED <<a_pc, fs_posts, fs_template, fs_index, n_chunks, index_opened, exit_code>>
    /\ UNCHANGED <<parserVars, collectorVars>>

\* posts.json is put in place
PutPosts ==
    /\ a_pc = "setup"
    /\ fs_posts = <<>>
    /\ \E doc \in PostsDocs : fs_posts' = <<doc>>
    /\ UNCHANGED <<a_pc, linesep, fs_template, fs_index, n_chunks, index_opened, exit_code>>
    /\ UNCHANGED <<parserVars, collectorVars>>

\* template.html is created empty
PutTemplate ==
    /\ a_pc = "setup"
    /\ fs_template = <<>>
    /\ fs_template' = << <<>> >>
    /\ UNCHANGED <<a_pc, linesep, fs_posts, fs_index, n_chunks, index_opened, exit_code>>
    /\ UNCHANGED <<parserVars, collectorVars>>

\* a piece is added to template.html
ExtendTemplate ==
    /\ a_pc = "setup"
    /\ fs_template # <<>>
    /\ n_chunks < MaxChunks
    /\ \E chunk \in TemplateChunks : fs_template' = <<fs_template[1] \o chunk>>
    /\ n_chunks' = n_chunks + 1
    /\ UNCHANGED <<a_pc, linesep, fs_posts, fs_index, index_opened, exit_code>>
    /\ UNCHANGED <<parserVars, collectorVars>>

\* an index.html of an earlier run is in place
PutOldIndex ==
    /\ a_pc = "setup"
    /\ fs_index = <<>>
    /\ fs_index' = <<OldIndex>>
    /\ UNCHANGED <<a_pc, linesep, fs_posts, fs_template, n_chunks, index_opened, exit_code>>
    /\ UNCHANGED <<parserVars, collectorVars>>

\* sys.exit(1), or an uncaught exception: nothing was written
Exit1 ==
    /\ a_pc' = "exited"
    /\ exit_code' = 1
    /\ UNCHANGED <<linesep, fs_posts, fs_template, fs_index, n_chunks, index_opened>>
    /\ UNCHANGED <<parserVars, collectorVars>>

\* the end of main: index.html is opened for writing and written
WriteIndex(new_html_content) ==
    /\ a_pc' = "exited"
    /\ index_opened' = TRUE
    /\ fs_index' = <<write_text(new_html_content, linesep)>>
    /\ exit_code' = 0
    /\ UNCHANGED <<linesep, fs_posts, fs_template, n_chunks>>
    /\ UNCHANGED <<parserVars, collectorVars>>

\* main: posts.json does not exist
MainPostsMissing ==
    /\ a_pc = "setup"
    /\ fs_posts = <<>>
    /\ Exit1

\* main: template.html does not exist
MainTemplateMissing ==
    /\ a_pc = "setup"
    /\ fs_posts # <<>>
    /\ fs_template = <<>>
    /\ Exit1

FilesExist == a_pc = "setup" /\ fs_posts # <<>> /\ fs_template # <<>>

\* main: json.load raises JSONDecodeError
MainBadJson ==
    /\ FilesExist
    /\ ~json_load_ok(fs_posts[1])
    /\ Exit1

\* main: len(posts_data) raises TypeError, which nothing catches
MainNoLen ==
    /\ FilesExist
    /\ json_load_ok(fs_posts[1])
    /\ ~has_len(json_load(fs_posts[1]))
    /\ Exit1

Loaded == FilesExist /\ json_load_ok(fs_posts[1]) /\ has_len(json_load(fs_posts[1]))

posts_json_str == json_dumps(json_load(fs_posts[1]))

html_content == read_text(fs_template[1])

\* main: the placeholder is in the template
MainReplace ==
    /\ Loaded
    /\ str_contains(html_content, placeholder)
    /\ WriteIndex(str_replace(html_content, placeholder, replacement(posts_json_str)))

\* main: the placeholder is not in the template and the pattern matches
MainFallback ==
    /\ Loaded
    /\ ~str_contains(html_content, placeholder)
    /\ re_search(pattern, html_content)
    /\ ~BadEscape(replacement(posts_json_str))
    /\ WriteIndex(re_sub(pattern, expand_template(replacement(posts_json_str)), html_content))

\* main: the pattern matches and re.sub raises re.error, which nothing catches
MainFallbackRaises ==
    /\ Loaded
    /\ ~str_contains(html_content, placeholder)
    /\ re_search(pattern, html_content)
    /\ BadEscape(replacement(posts_json_str))
    /\ Exit1

\* main: no placeholder is found and the template is written out as it is
MainNoPlaceholder_WritesTemplate ==
    /\ Loaded
    /\ ~str_contains(html_content, placeholder)
    /\ ~re_search(pattern, html_content)
    /\ WriteIndex(html_content)

\* main: neither the placeholder nor the pattern is found
MainNoPlaceholder ==
    /\ Loaded
    /\ ~str_contains(html_content, placeholder)
    /\ ~re_search(pattern, html_content)
    /\ Exit1

NextAssembler ==
    \/ SetWindows
    \/ PutPosts
    \/ PutTemplate
    \/ ExtendTemplate
    \/ PutOldIndex
    \/ MainPostsMissing
    \/ MainTemplateMissing
    \/ MainBadJson
    \/ MainNoLen
    \/ MainReplace
    \/ MainFallback
    \/ MainFallbackRaises
    \/ MainNoPlaceholder

----------------------------------------------------------------------------
(* Specifications *)

Init == InitParser /\ InitCollector /\ InitAssembler

SpecParseText == Init /\ [][NextParseText]_vars

SpecParseRes == Init /\ [][NextParseRes]_vars

SpecCollector == Init /\ [][NextCollector]_vars

SpecAssembler == Init /\ [][NextAssembler]_vars

----------------------------------------------------------------------------
(* Content Parser: what the claims speak of *)

\* the start tags and empty tags of the markup: its elements, in document order
Elements(items) == {n \in 1..Len(items) : items[n].k \in {"open", "empty"}}

\* the attribute that carries the URL of a resource element
UrlAttr(tag) ==
    IF tag = "link" THEN "href" ELSE IF tag = "image" THEN "src" ELSE "url"

\* the kind of a resource element
KindOf(tag) ==
    IF tag = "link" THEN "link" ELSE IF tag = "image" THEN "image" ELSE "file"

\* the elements that are link, file, secure-file or image and carry their URL attribute
UrlElements(items) ==
    {n \in Elements(items) :
        /\ items[n].tag \in {"link", "file", "secure-file", "image"}
        /\ Get(items[n], UrlAttr(items[n].tag)) # <<>>}

UrlOf(items, n) == Get(items[n], UrlAttr(items[n].tag))[1]

\* the naming rules of the specification, for the element at item n and the URL u
RuleName(items, n, u) ==
    LET e == items[n]
        nested == strip(itertext(items, n))
        raw == IF e.tag = "link" THEN (IF nested = <<>> THEN <<"External Link">> ELSE nested)
               ELSE IF e.tag = "image" THEN GetOr(e, "alt", <<"Image">>)
               ELSE GetOr(e, "filename", <<"File">>)
    IN IF raw = u THEN <<"Link">> ELSE raw

\* the entries of the returned list whose URL is u
EntriesFor(u) == {m \in 1..Len(resources) : resources[m].url = u}

\* the raw-scan entry for the URL u
RawEntry(u) ==
    IF Contains(u, "static.us.edusercontent.com")
    THEN [type |-> "file", url |-> u, name |-> <<"Raw File Attachment">>]
    ELSE [type |-> "link", url |-> u, name |-> <<"Raw Text Link">>]

\* the raw URLs of a text, as a set
RawUrls(t) == LET f == findall_urls(t, 1) IN {f[n] : n \in 1..Len(f)}

\* all character data of the markup, in source order
DocumentOrderText(items) == CharsBetween(items, 1, Len(items) + 1)

\* a text holds a tag-like substring: "<", at least one character other than ">", then ">"
HasTagLike(t) ==
    \E a \in 1..Len(t) : \E b \in (a + 2)..Len(t) :
        /\ t[a] = "<"
        /\ t[b] = ">"
        /\ \A c \in (a + 1)..(b - 1) : t[c] # ">"

Returned == p_pc = "returned"

WellFormed == raw_xml # <<>> /\ fromstring_ok(sanitize(raw_xml))

Malformed == raw_xml # <<>> /\ ~fromstring_ok(sanitize(raw_xml))

----------------------------------------------------------------------------
(* Content Parser: claims *)

\* C3: the returned resource list holds at most one entry per distinct URL;
\* a URL that is both an element's URL attribute and a raw URL of the
\* extracted text has exactly one entry, the one made from the element
\* (the element is seen first).
C3_OneEntryPerUrl ==
    Returned =>
        /\ \A m, n \in 1..Len(resources) :
               resources[m].url = resources[n].url => m = n
        /\ WellFormed =>
               \A n \in UrlElements(raw_xml) :
                   LET u == strip(UrlOf(raw_xml, n))
                   IN (Truthy(<<UrlOf(raw_xml, n)>>) /\ u \in RawUrls(full_text)) =>
                          /\ Cardinality(EntriesFor(u)) = 1
                          /\ \A m \in EntriesFor(u) : resources[m] # RawEntry(u)

\* C3 witness: a URL that is an element's attribute and also a raw URL of
\* the text was returned once.
C3_Witness ==
    /\ Returned
    /\ WellFormed
    /\ \E n \in UrlElements(raw_xml) :
           /\ Truthy(<<UrlOf(raw_xml, n)>>)
           /\ strip(UrlOf(raw_xml, n)) \in RawUrls(full_text)
    /\ Len(resources) >= 1

\* C4 as stated, read for markup that parses and for a URL attribute that
\* holds a value, the URL compared after trimming: for every link, file or
\* image element whose URL attribute is present, the returned list holds
\* exactly one entry for that URL, of that element's kind, named by the
\* naming rules applied to that element.
C4_EveryUrlElementHasItsOwnEntry ==
    (Returned /\ WellFormed) =>
        \A n \in UrlElements(raw_xml) :
            Truthy(<<UrlOf(raw_xml, n)>>) =>
                LET u == strip(UrlOf(raw_xml, n))
                IN /\ Cardinality(EntriesFor(u)) = 1
                   /\ \A m \in EntriesFor(u) :
                          resources[m] = [type |-> KindOf(raw_xml[n].tag), url |-> u,
                                          name |-> RuleName(sanitize(raw_xml), n, u)]

\* the first element, in document order, that carries the trimmed URL u
FirstWithUrl(items, u) ==
    CHOOSE n \in UrlElements(items) :
        /\ Truthy(<<UrlOf(items, n)>>)
        /\ strip(UrlOf(items, n)) = u
        /\ \A k \in UrlElements(items) :
               (Truthy(<<UrlOf(items, k)>>) /\ strip(UrlOf(items, k)) = u) => n <= k

\* C4 amended: for well-formed markup and every link, file or image element
\* whose URL attribute is present and not empty, the returned list holds
\* exactly one entry for the trimmed URL; its kind and its name are those of
\* the first element in document order that carries that trimmed URL, the
\* name following the naming rules (a name equal to the trimmed URL is "Link").
C4_FirstElementDecidesEntry ==
    (Returned /\ WellFormed) =>
        \A n \in UrlElements(raw_xml) :
            Truthy(<<UrlOf(raw_xml, n)>>) =>
                LET u == strip(UrlOf(raw_xml, n))
                    f == FirstWithUrl(raw_xml, u)
                IN /\ Cardinality(EntriesFor(u)) = 1
                   /\ \A m \in EntriesFor(u) :
                          resources[m] = [type |-> KindOf(raw_xml[f].tag), url |-> u,
                                          name |-> RuleName(sanitize(raw_xml), f, u)]

\* C4 witness: well-formed markup in which two elements of different kinds
\* carry the same URL was parsed.
C4_Witness ==
    /\ Returned
    /\ WellFormed
    /\ \E n, k \in UrlElements(raw_xml) :
           /\ n < k
           /\ Truthy(<<UrlOf(raw_xml, n)>>)
           /\ strip(UrlOf(raw_xml, n)) = strip(UrlOf(raw_xml, k))
           /\ KindOf(raw_xml[n].tag) # KindOf(raw_xml[k].tag)
    /\ Len(resources) >= 1

\* C5: for malformed markup the parser returns (it does not raise): the
\* cleaned text is the input with every tag-like substring removed and
\* trimmed, and every returned resource is the raw-scan entry of a raw URL
\* of that text; none comes from an element's attribute.
C5_MalformedFallsBack ==
    (Returned /\ Malformed) =>
        /\ parse_path = "fallback"
        /\ full_text = strip(re_sub_tags(raw_xml, 1))
        /\ ~HasTagLike(full_text)
        /\ \A m \in 1..Len(resources) :
               /\ resources[m].url \in RawUrls(full_text)
               /\ resources[m] = RawEntry(resources[m].url)

\* C5 witness: malformed markup that holds an element with a URL attribute
\* and a raw URL in its text was parsed.
C5_Witness ==
    /\ Returned
    /\ Malformed
    /\ UrlElements(raw_xml) # {}
    /\ Len(resources) >= 1

\* C9 as stated: for well-formed markup the cleaned text is the character
\* data of the markup in source order, trimmed.
C9_TextInDocumentOrder ==
    (Returned /\ WellFormed) =>
        full_text = strip(DocumentOrderText(sanitize(raw_xml)))

----------------------------------------------------------------------------
(* Post Collector: what the claims speak of *)

ListCalls == {n \in 1..Len(events) : events[n].op = "list_threads"}

ExternalCalls == {n \in 1..Len(events) : events[n].op \in {"list_threads", "get_thread"}}

\* the concatenation, in order, of the batches returned by the first n events
RECURSIVE BatchesUpTo(_)
BatchesUpTo(n) ==
    IF n = 0 THEN <<>>
    ELSE IF events[n].op = "list_threads" /\ events[n].res = "ok"
    THEN BatchesUpTo(n - 1) \o events[n].out
    ELSE BatchesUpTo(n - 1)

\* the threads among the first n of the list that were fetched and processed, in order
RECURSIVE ProcessedUpTo(_)
ProcessedUpTo(n) ==
    IF n = 0 THEN <<>>
    ELSE IF outcomes[n] = "ok"
    THEN Append(ProcessedUpTo(n - 1), all_threads[n])
    ELSE ProcessedUpTo(n - 1)

----------------------------------------------------------------------------
(* Post Collector: claims *)

\* C1: when list_threads raises after k non-empty batches, the accumulated
\* summary list is the concatenation, in order, of those k batches, from
\* then on, and no list_threads call follows the one that raised.
C1_ListErrorKeepsBatches ==
    \A e \in ListCalls :
        events[e].res = "error" =>
            /\ all_threads = BatchesUpTo(e)
            /\ \A n \in ListCalls : n <= e
            /\ c_pc \in {"fetch", "done"}

\* C1 witness: two batches were returned, the third call raised, and the
\* run went on to its end.
C1_Witness ==
    /\ c_pc = "done"
    /\ Cardinality(ListCalls) = 3
    /\ \E e \in ListCalls : events[e].res = "error"
    /\ Len(all_threads) >= 2

\* C2: a thread whose fetch or processing fails is skipped and nothing
\* else changes: the run is never aborted after login, every matching
\* thread is tried, and the persisted array holds, in the order of the
\* thread list, one record for each matching thread that was fetched and
\* processed and none for any other.
C2_ThreadFailureIsSkipped ==
    /\ c_pc = "aborted" => Len(events) = 1
    /\ c_pc = "fetch" => ENABLED NextCollector
    /\ c_pc = "done" =>
        /\ Len(outcomes) = Len(all_threads)
        /\ \A n \in 1..Len(all_threads) :
               (outcomes[n] = "no_match") <=> ~THREAD_PATTERN_search(TitleOf(all_threads[n]))
        /\ posts_file # <<>>
        /\ LET saved == posts_file[1]
               want  == ProcessedUpTo(Len(all_threads))
           IN /\ Len(saved) = Len(want)
              /\ \A n \in 1..Len(want) :
                     /\ saved[n].id = want[n].id
                     /\ saved[n].title = TitleOf(want[n])

\* C2 witness: a run ended in which one matching thread failed and a later
\* matching thread was saved.
C2_Witness ==
    /\ c_pc = "done"
    /\ \E m, n \in 1..Len(outcomes) :
           /\ m < n
           /\ outcomes[m] \in {"fetch_error", "process_error"}
           /\ outcomes[n] = "ok"
    /\ posts_file # <<>>
    /\ Len(posts_file[1]) >= 1

\* C10 as stated, phase by phase: between any two calls of the list phase
\* (list_threads) and between any two calls of the fetch and process phase
\* (get_thread) there is a delay, whether the earlier call succeeded or
\* failed.
C10_DelayAfterEveryCall ==
    \A m, n \in ExternalCalls :
        (m < n /\ events[m].op = events[n].op) =>
            \E k \in (m + 1)..(n - 1) : events[k].op = "sleep"

----------------------------------------------------------------------------
(* Site Assembler: what the claims speak of *)

Exited == a_pc = "exited"

PostsMissing == fs_posts = <<>>

TemplateMissing == fs_template = <<>>

MalformedJson == fs_posts # <<>> /\ ~json_load_ok(fs_posts[1])

\* posts.json holds a JSON array
ValidDocument ==
    /\ fs_posts # <<>>
    /\ json_load_ok(fs_posts[1])
    /\ Head(json_load(fs_posts[1])) = "["

\* the placeholder is found neither verbatim nor by the fallback pattern
PlaceholderAbsent ==
    /\ fs_template # <<>>
    /\ ~str_contains(read_text(fs_template[1]), placeholder)
    /\ ~re_search(pattern, read_text(fs_template[1]))

\* where the placeholder statement stands in the bytes of template.html
PlaceholderAt == {n \in 1..Len(fs_template[1]) : StartsAt(fs_template[1], n, placeholder)}

\* the statement shape without the trailing comment, \s* between the literals
StatementOnly == <<"const POSTS_DATA", "=", "[];">>

----------------------------------------------------------------------------
(* Site Assembler: claims *)

\* C6 as stated: for a template that holds the placeholder statement once
\* and a valid input document, index.html is written and holds the bytes
\* of the template before the placeholder, then the statement with the
\* serialized array, then the bytes of the template after the placeholder.
C6_OnlyPlaceholderChanges ==
    (Exited /\ ValidDocument /\ ~TemplateMissing /\ Cardinality(PlaceholderAt) = 1) =>
        /\ exit_code = 0
        /\ \A n \in PlaceholderAt :
               fs_index =
                   << SubSeq(fs_template[1], 1, n - 1)
                      \o replacement(json_dumps(json_load(fs_posts[1])))
                      \o SubSeq(fs_template[1], n + Len(placeholder), Len(fs_template[1])) >>

\* C7 as stated: a template that does not hold the placeholder verbatim
\* and holds the statement without the trailing comment is accepted: the
\* run exits with status 0 and index.html is written.
C7_StatementWithoutCommentAccepted ==
    ( /\ Exited
      /\ ValidDocument
      /\ ~TemplateMissing
      /\ ~str_contains(read_text(fs_template[1]), placeholder)
      /\ re_search(StatementOnly, read_text(fs_template[1])) ) =>
        /\ exit_code = 0
        /\ index_opened

\* C8: on each fatal condition (posts.json missing, template.html missing,
\* posts.json not JSON, placeholder found neither verbatim nor by the
\* pattern) the process exits with a non-zero status, index.html is never
\* opened for writing and an index.html that was there is as it was.
C8_FatalWritesNothing ==
    (Exited /\ (PostsMissing \/ TemplateMissing \/ MalformedJson \/ PlaceholderAbsent)) =>
        /\ exit_code # 0
        /\ ~index_opened
        /\ fs_index \in {<<>>, <<OldIndex>>}

\* C8 witness: with a valid document and an index.html of an earlier run in
\* place, the run ended because no placeholder was found.
C8_Witness ==
    /\ Exited
    /\ ValidDocument
    /\ PlaceholderAbsent
    /\ Len(fs_template[1]) >= 1
    /\ fs_index = <<OldIndex>>
    /\ exit_code = 1

====
